---- MODULE Spec2Model ----
(***************************************************************************)
(* A model of the fixed-income engine: the cash-flow cache of RiskEngine,  *)
(* the multi-period loop of PortfolioSimulator, the scenario generator of  *)
(* yield_curve.py and the constraint check of constraints.py.              *)
(*                                                                         *)
(* Floating-point quantities are fixed-point integers:                     *)
(*   maturities, cash-flow times, tau   months        (0.25 years = 3)     *)
(*   coupon rates                       basis points  (0.04 = 400)         *)
(*   curve parameters and yields        1e-5          (0.04 = 4000)        *)
(*   volatility, shock magnitudes       1e-3          (0.005 = 5)          *)
(*   standard normal draws              1e-2          (0.4967 = 50)        *)
(*   money                              cents                              *)
(*   weights                            1e-7          (1.0 = 10000000)     *)
(*   durations, convexities             whole units; weighted sums in 1e-7 *)
(***************************************************************************)
EXTENDS Integers, Sequences, FiniteSets, TLC

VARIABLES
  universe,          \* PortfolioSimulator.universe
  weights,           \* PortfolioSimulator.weights
  history,           \* PortfolioSimulator.history
  cache,             \* RiskEngine._cf_cache
  pc,                \* position inside run_simulation ("idle" outside it)
  i,                 \* loop index of run_simulation
  steps,             \* argument steps
  step_size_years,   \* argument step_size_years
  current_universe,  \* local current_universe
  current_weights,   \* local current_weights
  future_path,       \* local future_path
  new_weights,       \* local new_weights
  used,              \* per bond, the schedule the latest pricing pass used
  returned,          \* the rows of the frame the latest run_simulation returned
  calls,             \* run_simulation calls made on the simulator
  rng,               \* state of the process-wide numpy generator
  op,                \* the latest operation, its arguments and its result
  base_curve,        \* ScenarioGenerator.base_curve
  ref,               \* one earlier generate_scenarios call, kept for comparison
  cfg,               \* PortfolioConstraints fields
  cweights,          \* check_constraints argument weights
  stats,             \* check_constraints argument bond_characteristics
  violations,        \* the mapping check_constraints returned
  frame              \* the frame of a solve_ytm call: arguments, ytm, i

vars ==
  << universe, weights, history, cache, pc, i, steps, step_size_years,
     current_universe, current_weights, future_path, new_weights, used,
     returned, calls, rng, op, base_curve, ref, cfg, cweights, stats,
     violations, frame >>

simVars ==
  << universe, weights, history, pc, i, steps, step_size_years,
     current_universe, current_weights, future_path, new_weights, used,
     returned, calls >>

curveVars == << base_curve, ref >>

consVars == << cfg, cweights, stats, violations >>

ytmVars == << frame >>

(***************************************************************************)
(* Bounds of the model.                                                    *)
(***************************************************************************)
MaxSteps == 2

MaxCalls == 2

MaxScenarios == 2

(***************************************************************************)
(* Helpers.                                                                *)
(***************************************************************************)
Max(a, b) == IF a >= b THEN a ELSE b

Min(a, b) == IF a <= b THEN a ELSE b

Abs(a) == IF a >= 0 THEN a ELSE -a

\* Python's round(num / den) for den > 0: to nearest, ties to the even integer.
RoundHalfEven(num, den) ==
  LET q == num \div den
      r == num % den
  IN  IF 2 * r < den THEN q
      ELSE IF 2 * r > den THEN q + 1
      ELSE IF q % 2 = 0 THEN q ELSE q + 1

RECURSIVE SumSeq(_)
SumSeq(s) == IF Len(s) = 0 THEN 0 ELSE Head(s) + SumSeq(Tail(s))

(***************************************************************************)
(* pricing_utils.py: BondAnalytics.                                        *)
(***************************************************************************)
\* float('inf'), the price of an invalid yield regime.
PosInf == 2000000000

\* int(x) in place of int(round(x)) at line 9.
generate_cash_flows_Truncated(principal, coupon_rate, frequency, years_to_maturity) ==
  LET total_periods == (years_to_maturity * frequency) \div 12
      coupon_payment == (coupon_rate * principal) \div (100 * frequency)
  IN  [period \in 1..total_periods |->
         [time   |-> (12 * period) \div frequency,
          amount |-> IF period = total_periods
                     THEN coupon_payment + 100 * principal
                     ELSE coupon_payment]]

generate_cash_flows(principal, coupon_rate, frequency, years_to_maturity) ==
  LET total_periods == RoundHalfEven(years_to_maturity * frequency, 12)
      coupon_payment == (coupon_rate * principal) \div (100 * frequency)
  IN  [period \in 1..total_periods |->
         [time   |-> (12 * period) \div frequency,
          amount |-> IF period = total_periods
                     THEN coupon_payment + 100 * principal
                     ELSE coupon_payment]]

\* 1000 / (1 + y / frequency) ^ n, one division per compounding period.
RECURSIVE DiscountFactor(_, _, _)
DiscountFactor(yield_to_maturity, frequency, n) ==
  IF n <= 0 THEN 1000
  ELSE (DiscountFactor(yield_to_maturity, frequency, n - 1) * (100000 * frequency))
         \div (100000 * frequency + yield_to_maturity)

calculate_price(yield_to_maturity, cash_flows, frequency) ==
  IF yield_to_maturity <= -100000 THEN PosInf
  ELSE SumSeq([k \in 1..Len(cash_flows) |->
                 (cash_flows[k].amount
                    * DiscountFactor(yield_to_maturity, frequency,
                                     (frequency * cash_flows[k].time) \div 12))
                 \div 1000])

(***************************************************************************)
(* yield_curve.py: YieldCurve.                                             *)
(***************************************************************************)
YieldCurve(beta0, beta1, beta2, tau) ==
  [beta0 |-> beta0, beta1 |-> beta1, beta2 |-> beta2, tau |-> tau]

\* 1000 * exp(-x / 1000) for x >= 0, as 1 / (1 + x + x^2/2 + x^3/6 + x^4/24).
ExpNeg(x) ==
  LET t1 == x
      t2 == (t1 * x) \div 2000
      t3 == (t2 * x) \div 3000
      t4 == (t3 * x) \div 4000
  IN  1000000 \div (1000 + t1 + t2 + t3 + t4)

get_yield(curve, maturity) ==
  IF maturity <= 0 THEN curve.beta0 + curve.beta1
  ELSE LET t_tau == (1000 * maturity) \div curve.tau
           exp_term == ExpNeg(t_tau)
           term1 == ((1000 - exp_term) * 1000) \div Max(t_tau, 1)
           term2 == term1 - exp_term
       IN  curve.beta0 + (curve.beta1 * term1 + curve.beta2 * term2) \div 1000

(***************************************************************************)
(* yield_curve.py: ScenarioGenerator.  The numpy generator is a position   *)
(* in a stream of standard normal draws; ZTable holds the first 300 draws  *)
(* of the stream np.random.seed(42) starts, in hundredths.                 *)
(***************************************************************************)
ZTable ==
  << 50, -14, 65, 152, -23, -23, 158, 77, -47, 54, -46, -47, 24, -191, -172,
     -56, -101, 31, -91, -141, 147, -23, 7, -142, -54, 11, -115, 38, -60, -29,
     -60, 185, -1, -106, 82, -122, 21, -196, -133, 20, 74, 17, -12, -30, -148,
     -72, -46, 106, 34, -176, 32, -39, -68, 61, 103, 93, -84, -31, 33, 98,
     -48, -19, -111, -120, 81, 136, -7, 100, 36, -65, 36, 154, -4, 156, -262,
     82, 9, -30, 9, -199, -22, 36, 148, -52, -81, -50, 92, 33, -53, 51,
     10, 97, -70, -33, -39, -146, 30, 26, 1, -23, -142, -42, -34, -80, -16,
     40, 189, 17, 26, -7, -192, -3, 6, 246, -19, 30, -3, -117, 114, 75,
     79, -91, 140, -140, 59, 219, -99, -57, 10, -50, -155, 7, -106, 47, -92,
     155, -78, -32, 81, -123, 23, 131, -161, 18, 26, 78, -124, -132, 52, 30,
     25, 35, -68, 23, 29, -71, 187, 47, -119, 66, -97, 79, 116, -82, 96,
     41, 82, 190, -25, -75, -89, -82, -8, 34, 28, 83, 1, 145, -26, 272,
     63, -86, -107, 48, -22, 71, 47, -7, -85, -151, -45, 86, 21, -125, 17,
     39, -88, 15, 6, -114, 36, 56, 108, 105, -138, -94, 52, 51, 52, 385,
     57, 114, 95, 65, -32, 76, -77, -24, -49, 8, 231, -187, 69, -161, -47,
     109, 6, -108, -72, 68, -73, 22, 5, -65, 214, 63, -203, 19, -66, 85,
     -79, -11, 50, 87, -120, -33, -47, -65, 177, 40, -126, 92, 212, 103, -152,
     -48, 127, -71, 44, 77, -93, -6, -324, -102, -25, -125, 163, -143, -44, 13,
     144, -144, 116, 1, -98, 46, 20, -60, 7, -39, 11, 66, 159, -124, 213,
     -195, -15, 59, 28, -62, -21, -49, -59, 85, 36, -69, 90, 31, 81, 63 >>

\* The draw k places after generator state pos.
Normal(pos, k) == ZTable[((pos + k) % Len(ZTable)) + 1]

\* The generator state a call draws from, were np.random.seed(42) left out.
SeedState_Ambient(state) == state

\* np.random.seed(42): the state the call draws from, whatever it was before.
SeedState(state) == 0

\* Curves built from draws that are not scaled by the volatility.
ScenariosFrom_Unscaled(start, base, n_scenarios, volatility) ==
  [k \in 1..n_scenarios |->
     LET s_beta0 == base.beta0 + Normal(start, 3 * (k - 1))
         s_beta1 == base.beta1 + Normal(start, 3 * (k - 1) + 1)
         s_beta2 == base.beta2 + Normal(start, 3 * (k - 1) + 2)
     IN  YieldCurve(Max(100, s_beta0), s_beta1, s_beta2, base.tau)]

\* The curves generate_scenarios builds from the draws that follow `start`.
ScenariosFrom(start, base, n_scenarios, volatility) ==
  [k \in 1..n_scenarios |->
     LET s_beta0 == base.beta0 + volatility * Normal(start, 3 * (k - 1))
         s_beta1 == base.beta1 + volatility * Normal(start, 3 * (k - 1) + 1)
         s_beta2 == base.beta2 + volatility * Normal(start, 3 * (k - 1) + 2)
     IN  YieldCurve(Max(100, s_beta0), s_beta1, s_beta2, base.tau)]

generate_scenarios(state, base, n_scenarios, volatility) ==
  ScenariosFrom(SeedState(state), base, n_scenarios, volatility)

\* The generator state generate_scenarios leaves behind.
StateAfterScenarios(state, n_scenarios) ==
  (SeedState(state) + 3 * n_scenarios) % Len(ZTable)

(***************************************************************************)
(* risk_engine.py: RiskEngine and its cash-flow cache, a mapping from bond *)
(* id to schedule.                                                         *)
(***************************************************************************)
EmptyCache == [x \in {} |-> << >>]

\* A cache that regenerates the schedule on every call.
CacheStore_Regenerate(c, bond_id, principal, coupon, freq, maturity) ==
  [x \in DOMAIN c \cup {bond_id} |->
     IF x = bond_id THEN generate_cash_flows(principal, coupon, freq, maturity)
     ELSE c[x]]

\* _cf_cache after _get_cached_cfs(bond_id, principal, coupon, freq, maturity).
CacheStore(c, bond_id, principal, coupon, freq, maturity) ==
  IF bond_id \notin DOMAIN c
  THEN [x \in DOMAIN c \cup {bond_id} |->
          IF x = bond_id
          THEN generate_cash_flows(principal, coupon, freq, maturity)
          ELSE c[x]]
  ELSE c

\* The schedule _get_cached_cfs returns.
get_cached_cfs(c, bond_id, principal, coupon, freq, maturity) ==
  CacheStore(c, bond_id, principal, coupon, freq, maturity)[bond_id]

\* _cf_cache after the schedules of bonds 1..k of a portfolio were fetched in
\* row order.
RECURSIVE CacheAfter(_, _, _)
CacheAfter(c, portfolio, k) ==
  IF k = 0 THEN c
  ELSE LET b == portfolio[k]
       IN  CacheStore(CacheAfter(c, portfolio, k - 1), b.id, b.principal,
                      b.coupon, b.frequency, b.maturity)

\* Per bond, the schedule a row-by-row pass over the portfolio gets.
SchedulesUsed(c, portfolio) ==
  [k \in 1..Len(portfolio) |->
     LET b == portfolio[k]
     IN  get_cached_cfs(CacheAfter(c, portfolio, k - 1), b.id, b.principal,
                        b.coupon, b.frequency, b.maturity)]

\* run_stress_test's total P&L, given the schedules the pass got.
StressPnl(portfolio, cfs, stress_curve) ==
  SumSeq([k \in 1..Len(portfolio) |->
            LET b == portfolio[k]
                p_stress == calculate_price(get_yield(stress_curve, b.maturity),
                                            cfs[k], b.frequency)
            IN  (p_stress - b.market_price) * b.quantity])

(***************************************************************************)
(* The inputs the model draws from.                                        *)
(***************************************************************************)
Bond(id, coupon, frequency, maturity, market_price) ==
  [id |-> id, principal |-> 100, coupon |-> coupon, frequency |-> frequency,
   maturity |-> maturity, market_price |-> market_price, quantity |-> 1]

Universes ==
  { << Bond("SHORT", 200, 2, 3, 10000), Bond("LONG", 600, 2, 24, 10000) >>,
    << Bond("SHORT", 400, 4, 6, 9900), Bond("LONG", 400, 1, 12, 10100) >> }

Ids == {"SHORT", "MID", "LONG"}

\* (principal, coupon, frequency, maturity) a caller may pass with any id.
Terms == { << 100, 200, 2, 6 >>, << 100, 200, 2, 12 >>, << 200, 400, 1, 12 >> }

CurveA == YieldCurve(4500, -2000, 1000, 24)

CurveB == YieldCurve(50, 0, 0, 24)

Curves == {CurveA, CurveB}

StepSizes == {3, 6}

\* 1.0 as a weight.
WOne == 10000000

InitialWeights ==
  { << WOne, 0 >>, << 2 * WOne, 0 >>, << 3300000, 6700000 >> }

\* The weights a solver run is taken to stop at: a bound of [0, 1].
WeightGrid == {0, WOne}

\* The vectors a solver run that stops early is taken to have reached.
Unconverged == { << WOne, WOne >>, << WOne, WOne, WOne >> }

(***************************************************************************)
(* constraints.py: PortfolioConstraints.  An unset target is << >>, a set  *)
(* one << value >>.                                                        *)
(***************************************************************************)
PortfolioConstraints(target_duration, target_convexity, max_weight, min_weight) ==
  [target_duration |-> target_duration, target_convexity |-> target_convexity,
   max_weight |-> max_weight, min_weight |-> min_weight,
   dur_tol |-> 500000, conv_tol |-> 5000000]

DefaultCfg == PortfolioConstraints(<< >>, << >>, WOne, 0)

NoViolations == [x \in {} |-> 0]

NoRef == [kind |-> "none"]

\* No solve_ytm call has been made.
NoFrame == [pc |-> "none"]

(***************************************************************************)
(* optimizer.py: PortfolioOptimizer.optimize.  The SLSQP solver is outside *)
(* the repository: a run that converges returns a vector meeting the       *)
(* budget and the bounds it was given, any other run returns whatever      *)
(* vector it reached.                                                      *)
(***************************************************************************)
\* Bounds that do not reach the solver.
ConvergedOn_Unbounded(grid, c, n) ==
  { w \in [1..n -> grid] : SumSeq(w) = WOne }

\* The vectors of a grid that meet the budget equality (line 70) and the
\* bounds (lines 91-93); no target is configured.
ConvergedOn(grid, c, n) ==
  { w \in [1..n -> grid] :
      /\ SumSeq(w) = WOne
      /\ \A k \in 1..n : c.min_weight <= w[k] /\ w[k] <= c.max_weight }

Converged(c, n) == ConvergedOn(WeightGrid, c, n)

NotConverged(n) == { w \in Unconverged : Len(w) = n }

\* Lines 99-112 with the converged vectors taken from a grid.
optimize_in(grid, c, bond_universe) ==
  ConvergedOn(grid, c, Len(bond_universe)) \cup NotConverged(Len(bond_universe))

optimize(c, bond_universe) == optimize_in(WeightGrid, c, bond_universe)

(***************************************************************************)
(* simulator.py: PortfolioSimulator.run_simulation.                        *)
(***************************************************************************)
\* Line 29: the aged maturity.
AgeMaturity(maturity, step) == maturity - step

\* A floor that lets a maturity of exactly 0 through.
FloorMaturity_Negative(maturity) == IF maturity < 0 THEN 6 ELSE maturity

\* Line 32: a maturity <= 0 rolls into 6-month paper.
FloorMaturity(maturity) == IF maturity <= 0 THEN 6 ELSE maturity

\* A step that keeps the cache.
ClearCache_Keep(c) == c

\* Line 35: _cf_cache.clear().
ClearCache(c) == EmptyCache

\* A turnover that lets weight changes cancel.
Turnover_Signed(new, old) == SumSeq([k \in 1..Len(new) |-> new[k] - old[k]])

\* Line 53: np.sum(np.abs(new_weights - current_weights)).
Turnover(new, old) == SumSeq([k \in 1..Len(new) |-> Abs(new[k] - old[k])])

market_curve == future_path[i + 1]

\* Lines 15-20: the call starts.
StartRun ==
  /\ pc = "idle"
  /\ calls < MaxCalls
  /\ \E base \in {CurveA}, n \in 0..MaxSteps, s \in StepSizes :
       /\ current_weights' = weights
       /\ current_universe' = universe
       /\ future_path' = generate_scenarios(rng, base, n, 5)
       /\ rng' = StateAfterScenarios(rng, n)
       /\ steps' = n
       /\ step_size_years' = s
       /\ op' = [kind |-> "run_simulation", steps |-> n]
       /\ pc' = IF n > 0 THEN "age" ELSE "return"
  /\ i' = 0
  /\ calls' = calls + 1
  /\ UNCHANGED << universe, weights, history, cache, new_weights, used, returned >>
  /\ UNCHANGED << curveVars, consVars, ytmVars >>

\* Lines 29-32: aging and the maturity floor.
Age ==
  /\ pc = "age"
  /\ current_universe' =
       [k \in 1..Len(current_universe) |->
          [current_universe[k] EXCEPT
             !.maturity = FloorMaturity(AgeMaturity(@, step_size_years))]]
  /\ pc' = "clear"
  /\ UNCHANGED << universe, weights, history, cache, i, steps, step_size_years,
                  current_weights, future_path, new_weights, used, returned,
                  calls, rng, op >>
  /\ UNCHANGED << curveVars, consVars, ytmVars >>

\* Line 35: the cache is cleared.
Clear ==
  /\ pc = "clear"
  /\ cache' = ClearCache(cache)
  /\ pc' = "mtm"
  /\ UNCHANGED << universe, weights, history, i, steps, step_size_years,
                  current_universe, current_weights, future_path, new_weights,
                  used, returned, calls, rng, op >>
  /\ UNCHANGED << curveVars, consVars, ytmVars >>

\* Lines 38-46: mark-to-market of every bond, in row order.
MarkToMarket ==
  /\ pc = "mtm"
  /\ LET cfs == SchedulesUsed(cache, current_universe)
     IN  /\ used' = cfs
         /\ current_universe' =
              [k \in 1..Len(current_universe) |->
                 LET bond == current_universe[k]
                     new_yield == get_yield(market_curve, bond.maturity)
                 IN  [bond EXCEPT !.market_price =
                        calculate_price(new_yield, cfs[k], bond.frequency)]]
  /\ cache' = CacheAfter(cache, current_universe, Len(current_universe))
  /\ pc' = "optimize"
  /\ UNCHANGED << universe, weights, history, i, steps, step_size_years,
                  current_weights, future_path, new_weights, returned, calls,
                  rng, op >>
  /\ UNCHANGED << curveVars, consVars, ytmVars >>

\* Lines 49-50: fresh local scenarios and the re-optimization, whose objective
\* fetches every bond's schedule through the cache.
Reoptimize ==
  /\ pc = "optimize"
  /\ rng' = StateAfterScenarios(rng, 100)
  /\ used' = SchedulesUsed(cache, current_universe)
  /\ cache' = CacheAfter(cache, current_universe, Len(current_universe))
  /\ new_weights' \in optimize(cfg, current_universe)
  /\ pc' = "record"
  /\ UNCHANGED << universe, weights, history, i, steps, step_size_years,
                  current_universe, current_weights, future_path, returned,
                  calls, op >>
  /\ UNCHANGED << curveVars, consVars, ytmVars >>

\* Lines 53-67: the step's record, and the loop goes on or ends.
Record ==
  /\ pc = "record"
  /\ history' = Append(history,
                       [step |-> i + 1,
                        turnover |-> Turnover(new_weights, current_weights),
                        benchmark_yield |-> get_yield(market_curve, 120)])
  /\ current_weights' = new_weights
  /\ i' = i + 1
  /\ pc' = IF i + 1 < steps THEN "age" ELSE "return"
  /\ UNCHANGED << universe, weights, cache, steps, step_size_years,
                  current_universe, future_path, new_weights, used, returned,
                  calls, rng, op >>
  /\ UNCHANGED << curveVars, consVars, ytmVars >>

\* Line 69: the frame of self.history is returned; the locals go out of scope.
Return ==
  /\ pc = "return"
  /\ returned' = history
  /\ pc' = "idle"
  /\ i' = 0
  /\ current_universe' = << >>
  /\ current_weights' = << >>
  /\ future_path' = << >>
  /\ new_weights' = << >>
  /\ UNCHANGED << universe, weights, history, cache, steps, step_size_years,
                  used, calls, rng, op >>
  /\ UNCHANGED << curveVars, consVars, ytmVars >>

\* risk_engine.py lines 11-16, called by any holder of the engine.
GetCachedCfs ==
  /\ pc = "idle"
  /\ \E bond_id \in Ids, t \in Terms :
       /\ op' = [kind |-> "get_cached_cfs", bond_id |-> bond_id, terms |-> t,
                 result |-> get_cached_cfs(cache, bond_id, t[1], t[2], t[3], t[4])]
       /\ cache' = CacheStore(cache, bond_id, t[1], t[2], t[3], t[4])
  /\ UNCHANGED << simVars, rng, curveVars, consVars, ytmVars >>

\* Any holder of the engine may clear the cache, as simulator.py line 35 does.
CacheClear ==
  /\ pc = "idle"
  /\ cache' = ClearCache(cache)
  /\ op' = [kind |-> "clear"]
  /\ UNCHANGED << simVars, rng, curveVars, consVars, ytmVars >>

\* risk_engine.py lines 94-108: run_stress_test on the caller's universe.
RunStressTest ==
  /\ pc = "idle"
  /\ \E stress_curve \in {CurveA} :
       LET cfs == SchedulesUsed(cache, universe)
       IN  /\ used' = cfs
           /\ op' = [kind |-> "run_stress_test",
                     result |-> StressPnl(universe, cfs, stress_curve)]
  /\ cache' = CacheAfter(cache, universe, Len(universe))
  /\ UNCHANGED << universe, weights, history, pc, i, steps, step_size_years,
                  current_universe, current_weights, future_path, new_weights,
                  returned, calls, rng >>
  /\ UNCHANGED << curveVars, consVars, ytmVars >>

\* After PortfolioSimulator.__init__ on a fresh RiskEngine.
Init ==
  /\ universe \in Universes
  /\ weights \in InitialWeights
  /\ history = << >>
  /\ cache = EmptyCache
  /\ pc = "idle"
  /\ i = 0
  /\ steps = 0
  /\ step_size_years = 0
  /\ current_universe = << >>
  /\ current_weights = << >>
  /\ future_path = << >>
  /\ new_weights = << >>
  /\ used = << >>
  /\ returned = << >>
  /\ calls = 0
  /\ rng = 7
  /\ op = [kind |-> "init"]
  /\ base_curve = CurveA
  /\ ref = NoRef
  /\ cfg = DefaultCfg
  /\ cweights = << >>
  /\ stats = << >>
  /\ violations = NoViolations
  /\ frame = NoFrame

Next ==
  \/ StartRun
  \/ Age
  \/ Clear
  \/ MarkToMarket
  \/ Reoptimize
  \/ Record
  \/ Return
  \/ RunStressTest

Spec == Init /\ [][Next]_vars

(***************************************************************************)
(* The cash-flow cache on its own: any holder of the engine calls          *)
(* _get_cached_cfs with any terms, or clears the cache.                    *)
(***************************************************************************)
Frozen ==
  /\ universe = << >>
  /\ weights = << >>
  /\ history = << >>
  /\ pc = "idle"
  /\ i = 0
  /\ steps = 0
  /\ step_size_years = 0
  /\ current_universe = << >>
  /\ current_weights = << >>
  /\ future_path = << >>
  /\ new_weights = << >>
  /\ used = << >>
  /\ returned = << >>
  /\ calls = 0

CacheInit ==
  /\ Frozen
  /\ cache = EmptyCache
  /\ rng = 7
  /\ op = [kind |-> "init"]
  /\ base_curve = CurveA
  /\ ref = NoRef
  /\ cfg = DefaultCfg
  /\ cweights = << >>
  /\ stats = << >>
  /\ violations = NoViolations
  /\ frame = NoFrame

CacheNext ==
  \/ GetCachedCfs
  \/ CacheClear

SpecCache == CacheInit /\ [][CacheNext]_vars

(***************************************************************************)
(* Claims about the simulator and the cache.                               *)
(***************************************************************************)
\* The schedule generate_cash_flows gives for a bond's terms as they stand.
ScheduleOf(b) ==
  generate_cash_flows(b.principal, b.coupon, b.frequency, b.maturity)

\* C1: in every simulator step the cache is empty when the mark-to-market
\* starts (cleared after the aging and the floor, before any re-pricing), and
\* every schedule the mark-to-market and the re-optimization of the step use
\* is the one generated from the bond's maturity at that step.
C1_FreshSchedules ==
  /\ pc = "mtm" => DOMAIN cache = {}
  /\ pc \in {"optimize", "record"} =>
       \A k \in 1..Len(current_universe) :
         used[k] = ScheduleOf(current_universe[k])

\* C1 witness: the second step of a run has re-priced a bond whose schedule
\* differs from the one the first step generated for it.
C1_Witness ==
  /\ pc = "record"
  /\ i = 1
  /\ \E k \in 1..Len(current_universe) :
       /\ used[k] = ScheduleOf(current_universe[k])
       /\ used[k] /= ScheduleOf([universe[k] EXCEPT !.maturity =
                       FloorMaturity(AgeMaturity(@, step_size_years))])

\* C3 (as stated): every run_simulation call with steps = n returns exactly one
\* record per step, with step indices 1..n, also on a second call on the same
\* simulator.
C3_OneRecordPerStep ==
  (pc = "idle" /\ op.kind = "run_simulation") =>
     /\ Len(returned) = op.steps
     /\ \A k \in 1..Len(returned) : returned[k].step = k

Simplex(w) == SumSeq(w) = WOne /\ \A k \in 1..Len(w) : w[k] >= 0

\* C4 (as stated): the turnover recorded at every step is >= 0 and <= 2.
C4_TurnoverAtMostTwo ==
  \A k \in 1..Len(history) :
    history[k].turnover >= 0 /\ history[k].turnover <= 2 * WOne

\* C4 (amended): the turnover a step records is >= 0, and it is <= 2 when the
\* previous and the new weight vector are both non-negative and sum to 1.
C4_TurnoverOnSimplex ==
  [][(pc = "record" /\ pc' /= "record") =>
       LET r == history'[Len(history')]
       IN  /\ r.turnover >= 0
           /\ (Simplex(current_weights) /\ Simplex(new_weights))
                => r.turnover <= 2 * WOne]_vars

\* C4 witness: a first step moved the whole portfolio from one bond to the
\* other, both vectors on the simplex, and recorded a turnover of exactly 2.
C4_Witness ==
  /\ i = 1
  /\ Len(history) >= 1
  /\ history[Len(history)].turnover = 2 * WOne
  /\ Simplex(weights)
  /\ Simplex(current_weights)
  /\ Turnover(current_weights, weights) = 2 * WOne

\* C5: a step turns every maturity m into m - step when that is > 0 and into
\* 0.5 years otherwise, so every maturity is strictly positive once aged.
C5_AgingKeepsMaturityPositive ==
  /\ [](pc \in {"clear", "mtm", "optimize", "record"} =>
          \A k \in 1..Len(current_universe) : current_universe[k].maturity > 0)
  /\ [][(pc = "age" /\ pc' = "clear") =>
          \A k \in 1..Len(current_universe) :
            current_universe'[k].maturity =
              IF current_universe[k].maturity - step_size_years > 0
              THEN current_universe[k].maturity - step_size_years
              ELSE 6]_vars

\* C5 witness: a bond whose maturity reached exactly 0 was rolled to 0.5 years.
C5_Witness ==
  /\ pc = "clear"
  /\ i = 0
  /\ \E k \in 1..Len(current_universe) :
       /\ universe[k].maturity - step_size_years = 0
       /\ current_universe[k].maturity = 6

(***************************************************************************)
(* Claims about the cache on its own.                                      *)
(***************************************************************************)
\* C2: _get_cached_cfs generates a schedule only when the id is not cached;
\* otherwise it returns the stored schedule whatever terms are passed, and it
\* leaves the entries of other ids as they were.
C2_FirstUseOnly ==
  [][(op'.kind = "get_cached_cfs" /\ (op' /= op \/ cache' /= cache)) =>
       LET id == op'.bond_id
           t == op'.terms
       IN  /\ id \in DOMAIN cache =>
                op'.result = cache[id] /\ cache' = cache
           /\ id \notin DOMAIN cache =>
                /\ op'.result = generate_cash_flows(t[1], t[2], t[3], t[4])
                /\ DOMAIN cache' = DOMAIN cache \cup {id}
                /\ cache'[id] = op'.result
           /\ \A x \in DOMAIN cache \ {id} : cache'[x] = cache[x]]_vars

\* C2 witness: a call on a cached id returned the stored schedule although the
\* terms it passed generate another one, with other ids cached as well.
C2_Witness ==
  /\ op.kind = "get_cached_cfs"
  /\ op.result = cache[op.bond_id]
  /\ op.result /= generate_cash_flows(op.terms[1], op.terms[2], op.terms[3],
                                      op.terms[4])
  /\ DOMAIN cache /= {op.bond_id}

(***************************************************************************)
(* yield_curve.py: ScenarioGenerator, called by any holder of a generator. *)
(***************************************************************************)
\* A steepener that moves both parameters the same way.
apply_manual_shock_SameSign(base, type, magnitude) ==
  IF type = "parallel"
  THEN YieldCurve(base.beta0 + 100 * magnitude, base.beta1, base.beta2, base.tau)
  ELSE IF type = "steepener"
  THEN YieldCurve(base.beta0 + 100 * magnitude, base.beta1 + 100 * magnitude,
                  base.beta2, base.tau)
  ELSE IF type = "flattener"
  THEN YieldCurve(base.beta0 - 100 * magnitude, base.beta1 + 100 * magnitude,
                  base.beta2, base.tau)
  ELSE base

\* Lines 81-102.
apply_manual_shock(base, type, magnitude) ==
  IF type = "parallel"
  THEN YieldCurve(base.beta0 + 100 * magnitude, base.beta1, base.beta2, base.tau)
  ELSE IF type = "steepener"
  THEN YieldCurve(base.beta0 + 100 * magnitude, base.beta1 - 100 * magnitude,
                  base.beta2, base.tau)
  ELSE IF type = "flattener"
  THEN YieldCurve(base.beta0 - 100 * magnitude, base.beta1 + 100 * magnitude,
                  base.beta2, base.tau)
  ELSE base

ShockTypes == {"parallel", "steepener", "flattener", "twist"}

Magnitudes == {10, 5, -5}

Volatilities == {0, 5, 10}

CurveC == YieldCurve(100, 300, -200, 12)

BaseCurves == {CurveA, CurveB, CurveC}

\* ScenarioGenerator(base_curve): lines 52-53.
NewGenerator ==
  /\ \E base \in BaseCurves :
       /\ base /= base_curve
       /\ base_curve' = base
  /\ op' = [kind |-> "ScenarioGenerator"]
  /\ UNCHANGED << simVars, cache, rng, ref, consVars, ytmVars >>

\* generate_scenarios(n_scenarios, volatility): lines 55-79.  The call may be
\* kept in ref, to be compared with a later call of the same arguments.
GenerateScenarios ==
  /\ \E n \in 0..MaxScenarios, volatility \in Volatilities :
       LET call == [kind |-> "generate_scenarios", base |-> base_curve,
                    n_scenarios |-> n, volatility |-> volatility,
                    state |-> rng,
                    result |-> generate_scenarios(rng, base_curve, n, volatility)]
       IN  /\ op' = call
           /\ rng' = StateAfterScenarios(rng, n)
           /\ \/ ref' = ref
              \/ ref = NoRef /\ ref' = call
  /\ UNCHANGED << simVars, cache, base_curve, consVars, ytmVars >>

\* apply_manual_shock(type, magnitude): lines 81-102.
ApplyManualShock ==
  /\ \E type \in ShockTypes, magnitude \in Magnitudes :
       op' = [kind |-> "apply_manual_shock", base |-> base_curve,
              type |-> type, magnitude |-> magnitude,
              result |-> apply_manual_shock(base_curve, type, magnitude)]
  /\ UNCHANGED << simVars, cache, rng, base_curve, ref, consVars, ytmVars >>

CurveInit ==
  /\ Frozen
  /\ cache = EmptyCache
  /\ rng \in {7, 100}
  /\ op = [kind |-> "init"]
  /\ base_curve \in BaseCurves
  /\ ref = NoRef
  /\ cfg = DefaultCfg
  /\ cweights = << >>
  /\ stats = << >>
  /\ violations = NoViolations
  /\ frame = NoFrame

CurveNext ==
  \/ NewGenerator
  \/ GenerateScenarios
  \/ ApplyManualShock

SpecCurve == CurveInit /\ [][CurveNext]_vars

(***************************************************************************)
(* Claims about the scenario generator.                                    *)
(***************************************************************************)
\* The curve the specification gives for a shock kind.
ShockedAs(b, type, m) ==
  CASE type = "parallel"  -> YieldCurve(b.beta0 + 100 * m, b.beta1, b.beta2, b.tau)
    [] type = "steepener" -> YieldCurve(b.beta0 + 100 * m, b.beta1 - 100 * m,
                                        b.beta2, b.tau)
    [] type = "flattener" -> YieldCurve(b.beta0 - 100 * m, b.beta1 + 100 * m,
                                        b.beta2, b.tau)
    [] OTHER              -> YieldCurve(b.beta0, b.beta1, b.beta2, b.tau)

\* C8: apply_manual_shock returns (b0+m, b1, b2, tau) for "parallel",
\* (b0+m, b1-m, b2, tau) for "steepener", (b0-m, b1+m, b2, tau) for
\* "flattener" and the base curve's parameters for any other kind, and the
\* base curve keeps its parameters in every case.
C8_ManualShock ==
  op.kind = "apply_manual_shock" =>
    /\ op.result = ShockedAs(op.base, op.type, op.magnitude)
    /\ base_curve = op.base

\* C8 witness: an unrecognised kind returned the base curve, after a
\* steepener call would have returned something else.
C8_Witness ==
  /\ op.kind = "apply_manual_shock"
  /\ op.type \notin {"parallel", "steepener", "flattener"}
  /\ op.result = base_curve
  /\ apply_manual_shock(base_curve, "steepener", op.magnitude) /= base_curve

\* C9 (as stated): with volatility 0 generate_scenarios returns n curves
\* whose parameters all equal the base curve's.
C9_ZeroVolatilityIsBase ==
  (op.kind = "generate_scenarios" /\ op.volatility = 0) =>
     /\ Len(op.result) = op.n_scenarios
     /\ \A k \in 1..Len(op.result) : op.result[k] = op.base

\* C9 (amended): with volatility 0 generate_scenarios returns n curves whose
\* beta1, beta2 and tau equal the base curve's and whose beta0 is the larger
\* of the base curve's beta0 and 0.001.
C9_ZeroVolatilityFloored ==
  (op.kind = "generate_scenarios" /\ op.volatility = 0) =>
     /\ Len(op.result) = op.n_scenarios
     /\ \A k \in 1..Len(op.result) :
          op.result[k] = [op.base EXCEPT !.beta0 = IF @ >= 100 THEN @ ELSE 100]

\* C9 witness: a zero-volatility call on a base curve with beta0 below 0.001
\* returned curves that differ from the base curve in beta0 only.
C9_Witness ==
  /\ op.kind = "generate_scenarios"
  /\ op.volatility = 0
  /\ op.n_scenarios >= 2
  /\ op.base.beta0 < 100
  /\ \A k \in 1..Len(op.result) :
       /\ op.result[k].beta0 = 100
       /\ op.result[k].beta1 = op.base.beta1

\* C10: a generate_scenarios call returns the same ordered curves as an
\* earlier call with the same base parameters, n and volatility, whatever ran
\* in between and whatever the generator state was at either call.
C10_Reproducible ==
  (/\ op.kind = "generate_scenarios"
   /\ ref /= NoRef
   /\ ref.base = op.base
   /\ ref.n_scenarios = op.n_scenarios
   /\ ref.volatility = op.volatility) => op.result = ref.result

\* C10 witness: two calls with the same arguments were made from different
\* generator states, with shocks that are not all zero.
C10_Witness ==
  /\ op.kind = "generate_scenarios"
  /\ ref /= NoRef
  /\ ref.base = op.base
  /\ ref.n_scenarios = op.n_scenarios
  /\ ref.volatility = op.volatility
  /\ ref.state /= op.state
  /\ op.n_scenarios >= 2
  /\ op.volatility > 0
  /\ op.result = ref.result
  /\ op.result[1] /= op.result[2]

(***************************************************************************)
(* constraints.py: PortfolioConstraints.check_constraints.  The mapping it *)
(* returns is a function from violation kind to signed magnitude.          *)
(***************************************************************************)
MaxOf(w) == CHOOSE x \in {w[k] : k \in 1..Len(w)} : \A k \in 1..Len(w) : w[k] <= x

MinOf(w) == CHOOSE x \in {w[k] : k \in 1..Len(w)} : \A k \in 1..Len(w) : w[k] >= x

\* Lines 36-37: np.dot(weights, mod_duration column).
calculate_portfolio_duration(w, bond_characteristics) ==
  SumSeq([k \in 1..Len(w) |-> w[k] * bond_characteristics[k].mod_duration])

\* Lines 39-40: np.dot(weights, convexity column).
calculate_portfolio_convexity(w, bond_characteristics) ==
  SumSeq([k \in 1..Len(w) |-> w[k] * bond_characteristics[k].convexity])

\* A budget check that reports the size of the gap without its sign.
BudgetViolation_Unsigned(w) ==
  LET total_w == SumSeq(w)
  IN  IF Abs(total_w - WOne) > 10 THEN "budget" :> Abs(total_w - WOne)
      ELSE NoViolations

\* Lines 46-48: the budget, with its 1e-6 tolerance.
BudgetViolation(w) ==
  LET total_w == SumSeq(w)
  IN  IF Abs(total_w - WOne) > 10 THEN "budget" :> (total_w - WOne)
      ELSE NoViolations

\* A concentration check without the 1e-7 slack.
MaxWeightViolation_NoSlack(c, w) ==
  IF \E k \in 1..Len(w) : w[k] > c.max_weight
  THEN "max_weight_excess" :> (MaxOf(w) - c.max_weight)
  ELSE NoViolations

\* Lines 51-52: the concentration limit, with its 1e-7 slack.
MaxWeightViolation(c, w) ==
  IF \E k \in 1..Len(w) : w[k] > c.max_weight + 1
  THEN "max_weight_excess" :> (MaxOf(w) - c.max_weight)
  ELSE NoViolations

\* Lines 53-54: the lower bound, with its 1e-7 slack.
MinWeightViolation(c, w) ==
  IF \E k \in 1..Len(w) : w[k] < c.min_weight - 1
  THEN "min_weight_violation" :> MinOf(w)
  ELSE NoViolations

\* Lines 57-60: duration matching, when a target is set.
DurationViolation(c, w, bond_characteristics) ==
  IF c.target_duration /= << >>
  THEN LET curr_dur == calculate_portfolio_duration(w, bond_characteristics)
       IN  IF Abs(curr_dur - c.target_duration[1]) > c.dur_tol
           THEN "duration_mismatch" :> (curr_dur - c.target_duration[1])
           ELSE NoViolations
  ELSE NoViolations

\* Lines 63-66: convexity matching, when a target is set.
ConvexityViolation(c, w, bond_characteristics) ==
  IF c.target_convexity /= << >>
  THEN LET curr_conv == calculate_portfolio_convexity(w, bond_characteristics)
       IN  IF Abs(curr_conv - c.target_convexity[1]) > c.conv_tol
           THEN "convexity_mismatch" :> (curr_conv - c.target_convexity[1])
           ELSE NoViolations
  ELSE NoViolations

\* Lines 42-68.
check_constraints(c, w, bond_characteristics) ==
  BudgetViolation(w) @@ MaxWeightViolation(c, w) @@ MinWeightViolation(c, w)
    @@ DurationViolation(c, w, bond_characteristics)
    @@ ConvexityViolation(c, w, bond_characteristics)

\* Weights around the bounds 0, 0.4 and 1 and around a sum of 1 +- 1e-6.
WeightValues ==
  {-2, 0, 2000000, 3999989, 4000000, 4000001, 4000002, 4000010, 4000011,
   6000000, WOne}

Configs ==
  { PortfolioConstraints(d, cx, mx, 0) :
      d \in {<< >>, << 75000000 >>}, cx \in {<< >>, << 300000000 >>},
      mx \in {4000000, 5000000, WOne} }

BondStats ==
  << [id |-> "SHORT", mod_duration |-> 2, convexity |-> 5, price |-> 102000],
     [id |-> "MED", mod_duration |-> 7, convexity |-> 30, price |-> 98000],
     [id |-> "LONG", mod_duration |-> 12, convexity |-> 50, price |-> 105000] >>

\* check_constraints(weights, bond_characteristics) on a constraints object.
CheckConstraints ==
  /\ op.kind = "init"
  /\ violations' = check_constraints(cfg, cweights, stats)
  /\ op' = [kind |-> "check_constraints"]
  /\ UNCHANGED << simVars, cache, rng, curveVars, cfg, cweights, stats, ytmVars >>

ConsInit ==
  /\ Frozen
  /\ cache = EmptyCache
  /\ rng = 7
  /\ op = [kind |-> "init"]
  /\ base_curve = CurveA
  /\ ref = NoRef
  /\ cfg \in Configs
  /\ cweights \in [1..3 -> WeightValues]
  /\ stats = BondStats
  /\ violations = NoViolations
  /\ frame = NoFrame

ConsNext == CheckConstraints

SpecCons == ConsInit /\ [][ConsNext]_vars

(***************************************************************************)
(* Claims about check_constraints.                                         *)
(***************************************************************************)
\* C6: max_weight_excess is reported exactly when some weight exceeds
\* max_weight + 1e-7, with magnitude max(weights) - max_weight, whatever the
\* other checks find; weights [0, 0, 1] with max_weight 0.4 give 0.6.
C6_MaxWeightExcess ==
  op.kind = "check_constraints" =>
    /\ "max_weight_excess" \in DOMAIN violations
         <=> \E k \in 1..Len(cweights) : cweights[k] > cfg.max_weight + 1
    /\ "max_weight_excess" \in DOMAIN violations =>
         violations["max_weight_excess"] = MaxOf(cweights) - cfg.max_weight
    /\ (cweights = << 0, 0, WOne >> /\ cfg.max_weight = 4000000) =>
         /\ "max_weight_excess" \in DOMAIN violations
         /\ violations["max_weight_excess"] = 6000000

\* C6 witness: weights [0, 0, 1] were checked against max_weight 0.4 and the
\* excess 0.6 was reported.
C6_Witness ==
  /\ op.kind = "check_constraints"
  /\ cweights = << 0, 0, WOne >>
  /\ cfg.max_weight = 4000000
  /\ "max_weight_excess" \in DOMAIN violations
  /\ violations["max_weight_excess"] = 6000000

\* C7: budget is reported exactly when |sum(weights) - 1| > 1e-6, with
\* magnitude sum(weights) - 1; weights that sum to 1 and lie within
\* [min_weight, max_weight] yield no key other than duration_mismatch and
\* convexity_mismatch.
C7_Budget ==
  op.kind = "check_constraints" =>
    /\ "budget" \in DOMAIN violations <=> Abs(SumSeq(cweights) - WOne) > 10
    /\ "budget" \in DOMAIN violations =>
         violations["budget"] = SumSeq(cweights) - WOne
    /\ (/\ SumSeq(cweights) = WOne
        /\ \A k \in 1..Len(cweights) :
             cfg.min_weight <= cweights[k] /\ cweights[k] <= cfg.max_weight) =>
         DOMAIN violations \subseteq {"duration_mismatch", "convexity_mismatch"}

\* C7 witness: weights [0.2, 0.4, 0.4] were checked against max_weight 0.5 and
\* a duration target, and the duration mismatch was the only key reported.
C7_Witness ==
  /\ op.kind = "check_constraints"
  /\ cweights = << 2000000, 4000000, 4000000 >>
  /\ cfg.max_weight = 5000000
  /\ DOMAIN violations = {"duration_mismatch"}

(***************************************************************************)
(* pricing_utils.py: BondAnalytics.solve_ytm, one action per iteration.    *)
(*                                                                         *)
(* The root finder works at a finer scale than the rest of the model:      *)
(*   yields   1e-7  (eps = 1, 0.05 = 500000, 1.0 = 10000000)               *)
(*   money    1e-7  (a principal of 100 = 1000000000)                      *)
(* so the price tolerance 1e-8 and the derivative threshold 1e-12 both     *)
(* mean "zero at this resolution".                                         *)
(***************************************************************************)
\* 1.0 as a yield.
YOne == 10000000

\* Line 33.
Low == -2000000

\* Line 34.
High == 10000000

\* Line 32, the default guess 0.05.
DefaultGuess == 500000

\* Line 37.
MaxIterations == 100

\* Line 41: eps = 1e-7.
Eps == 1

\* float('nan').
NaN == -2000000000

\* A guess of 1e200: adding eps leaves it unchanged, a cash flow divided by
\* it is 0 at any resolution, and its square is beyond the float range.
Huge == 1900000000

\* << q, r >> with a * b = q * c + r and 0 <= r < c, for a, b >= 0 and c > 0,
\* one binary digit of b at a time so that no intermediate exceeds 3 * c.
RECURSIVE MulDivQR(_, _, _)
MulDivQR(a, b, c) ==
  IF a = 0 \/ b = 0 THEN << 0, 0 >>
  ELSE LET h == MulDivQR(a, b \div 2, c)
           r == 2 * h[2] + (IF b % 2 = 1 THEN a % c ELSE 0)
           q == 2 * h[1] + (IF b % 2 = 1 THEN a \div c ELSE 0)
       IN  << q + r \div c, r % c >>

\* amount / (1 + y / frequency) ^ n, one division per compounding period.
RECURSIVE Discount(_, _, _, _)
Discount(amount, yield_to_maturity, frequency, n) ==
  IF n <= 0 THEN amount
  ELSE MulDivQR(Discount(amount, yield_to_maturity, frequency, n - 1),
                frequency * YOne,
                frequency * YOne + yield_to_maturity)[1]

\* Line 29: (1 + y / frequency) ** (frequency * time) raises OverflowError
\* when the power is beyond the float range.
PowerOverflows(yield_to_maturity, cash_flows, frequency) ==
  /\ yield_to_maturity = Huge
  /\ \E k \in 1..Len(cash_flows) : (frequency * cash_flows[k].time) \div 12 >= 2

\* calculate_price (lines 22-30) at the scale of the root finder.
calculate_price_fine(yield_to_maturity, cash_flows, frequency) ==
  IF yield_to_maturity = NaN THEN (IF Len(cash_flows) = 0 THEN 0 ELSE NaN)
  ELSE IF yield_to_maturity <= -YOne THEN PosInf
  ELSE IF yield_to_maturity = Huge THEN 0
  ELSE SumSeq([k \in 1..Len(cash_flows) |->
                 Discount(cash_flows[k].amount, yield_to_maturity, frequency,
                          (frequency * cash_flows[k].time) \div 12)])

\* ytm + eps in floating point.
PlusEps(ytm) == IF ytm \in {NaN, Huge} THEN ytm ELSE ytm + Eps

\* Line 46: abs(derivative) < 1e-12 or math.isnan(derivative), for the
\* derivative (price_eps - price) / eps of two prices that are both infinite
\* (inf - inf is nan), or nan, or both finite.
Degenerate(price, price_eps) ==
  \/ price = NaN
  \/ price = PosInf
  \/ price_eps = NaN
  \/ price_eps - price = 0

\* Line 59: max(min(ytm, high), low); both comparisons are false for nan.
Clamp(ytm) == IF ytm = NaN THEN NaN ELSE Max(Min(ytm, High), Low)

\* Line 56: ytm + diff / derivative, to the nearest representable yield.
NewtonStep_Reversed(ytm, diff, delta) ==
  ytm + (Abs(diff) \div Abs(delta)) * (IF (diff < 0) = (delta < 0) THEN -1 ELSE 1)

NewtonStep(ytm, diff, delta) ==
  LET q == Abs(diff) \div Abs(delta)
      r == Abs(diff) % Abs(delta)
      magnitude == IF 2 * r >= Abs(delta) THEN q + 1 ELSE q
  IN  ytm + magnitude * (IF (diff < 0) = (delta < 0) THEN 1 ELSE -1)

\* The schedule of a bond of principal 100, at the scale of the root finder.
SolverSchedule(coupon_rate, frequency, years_to_maturity) ==
  LET cfs == generate_cash_flows(100, coupon_rate, frequency, years_to_maturity)
  IN  [k \in 1..Len(cfs) |->
         [time |-> cfs[k].time, amount |-> 100000 * cfs[k].amount]]

\* Schedules with their frequency: 4% quarterly 1y, 4% semi-annual 2y,
\* 6% annual 2y, 4% semi-annual 6m, 2% semi-annual 3m, which is empty, and
\* a one-year zero-coupon of principal 3e-7, whose price is below the
\* resolution of the solver.
SolverBonds ==
  { [cash_flows |-> SolverSchedule(t[1], t[2], t[3]), frequency |-> t[2]] :
      t \in { << 400, 4, 12 >>, << 400, 2, 24 >>, << 600, 1, 24 >>,
              << 400, 2, 6 >>, << 200, 2, 3 >> } }
    \cup { [cash_flows |-> << [time |-> 12, amount |-> 3] >>, frequency |-> 1] }

\* Yields a target price is computed from: -25%, -20%, 0, 3.5%, 5%, 50%,
\* 100% and 150%.
RoundTripYields ==
  {-2500000, -2000000, 0, 350000, 500000, 5000000, 10000000, 15000000}

\* Target prices that come from no yield: 0 and par.
PlainTargets == {0, 1000000000}

\* The default guess, 1.5, -1.0, -1.5 and 1e200.
Guesses == {DefaultGuess, 15000000, -10000000, -15000000, Huge}

\* solve_ytm(target_price, cash_flows, frequency, guess): lines 32-36.
\* from_yield remembers the yield the target price was computed from, if any.
SolveYtm ==
  /\ frame.pc = "none"
  /\ \E b \in SolverBonds, guess \in Guesses :
       \E source \in {<< y >> : y \in RoundTripYields} \cup {<< >>} :
         \E target_price \in
              IF source = << >> THEN PlainTargets
              ELSE {calculate_price_fine(source[1], b.cash_flows, b.frequency)} :
           frame' = [pc |-> "loop", target_price |-> target_price,
                     cash_flows |-> b.cash_flows, frequency |-> b.frequency,
                     guess |-> guess, from_yield |-> source,
                     ytm |-> guess, i |-> 0]
  /\ UNCHANGED << simVars, cache, rng, op, curveVars, consVars >>

\* One pass of the loop body, lines 37-59.
Iterate ==
  /\ frame.pc = "loop"
  /\ frame.i < MaxIterations
  /\ LET ytm == frame.ytm
         overflow ==
           PowerOverflows(ytm, frame.cash_flows, frame.frequency)
         price == calculate_price_fine(ytm, frame.cash_flows, frame.frequency)
         price_eps ==
           calculate_price_fine(PlusEps(ytm), frame.cash_flows, frame.frequency)
         mid == (Low + High) \div 2
         diff == frame.target_price - price
     IN  frame' =
           IF overflow THEN [frame EXCEPT !.pc = "raised"]
           ELSE IF price = PosInf /\ PlusEps(ytm) > -YOne
             \* derivative and diff are both -inf, and their quotient is nan
             THEN [frame EXCEPT !.ytm = Clamp(NaN), !.i = @ + 1]
           ELSE IF Degenerate(price, price_eps)
             THEN [frame EXCEPT !.ytm = Clamp(mid), !.i = @ + 1]
           ELSE IF diff = 0
             THEN [pc |-> "returned", target_price |-> frame.target_price,
                   cash_flows |-> frame.cash_flows,
                   frequency |-> frame.frequency, guess |-> frame.guess,
                   from_yield |-> frame.from_yield, ytm |-> ytm,
                   i |-> frame.i, result |-> ytm, early |-> TRUE]
           ELSE [frame EXCEPT
                   !.ytm = Clamp(NewtonStep(ytm, diff, price_eps - price)),
                   !.i = @ + 1]
  /\ UNCHANGED << simVars, cache, rng, op, curveVars, consVars >>

\* Line 61: the loop is exhausted.
Exhaust ==
  /\ frame.pc = "loop"
  /\ frame.i = MaxIterations
  /\ frame' = [pc |-> "returned", target_price |-> frame.target_price,
               cash_flows |-> frame.cash_flows, frequency |-> frame.frequency,
               guess |-> frame.guess, from_yield |-> frame.from_yield,
               ytm |-> frame.ytm, i |-> frame.i, result |-> frame.ytm,
               early |-> FALSE]
  /\ UNCHANGED << simVars, cache, rng, op, curveVars, consVars >>

YtmInit ==
  /\ Frozen
  /\ cache = EmptyCache
  /\ rng = 7
  /\ op = [kind |-> "init"]
  /\ base_curve = CurveA
  /\ ref = NoRef
  /\ cfg = DefaultCfg
  /\ cweights = << >>
  /\ stats = << >>
  /\ violations = NoViolations
  /\ frame = NoFrame

YtmNext ==
  \/ SolveYtm
  \/ Iterate
  \/ Exhaust

SpecYtm == YtmInit /\ [][YtmNext]_vars

(***************************************************************************)
(* Claims about solve_ytm.                                                 *)
(***************************************************************************)
\* C11: whatever the target price, schedule, frequency and guess, the value
\* solve_ytm returns lies in [-0.20, 1.0], on early return and on exhaustion.
C11_ResultInBounds ==
  frame.pc = "returned" => (Low <= frame.result /\ frame.result <= High)

\* C12: the yield solve_ytm returns for the price of a schedule at a yield y is
\* within 1e-6 of y, for any y and any schedule.
C12_RoundTrip ==
  (frame.pc = "returned" /\ frame.from_yield /= << >>)
    => Abs(frame.result - frame.from_yield[1]) <= 10

\* The price of the schedule falls at least as fast as the yield rises at y
\* (by 1e-6 or more over a rise of 1e-6), so the solver can resolve it.
Responsive(y, cash_flows, frequency) ==
  calculate_price_fine(y, cash_flows, frequency)
    - calculate_price_fine(y + 10, cash_flows, frequency) >= 10

\* C12 for the yields of the solver's interval [-0.20, 1.0] and the schedules
\* whose price responds to the yield (so not the empty one): there the round
\* trip returns a yield within 1e-6 of y, from any guess the pricing accepts.
C12_RoundTripInBounds ==
  (/\ frame.pc = "returned"
   /\ frame.from_yield /= << >>
   /\ Low <= frame.from_yield[1]
   /\ frame.from_yield[1] <= High
   /\ Responsive(frame.from_yield[1], frame.cash_flows, frame.frequency))
    => Abs(frame.result - frame.from_yield[1]) <= 10

\* The price of the 4% quarterly bond at 3.5% has been solved from the default
\* guess by Newton steps, and the solver stopped within 1e-6 of 3.5%.
C12_Witness ==
  /\ frame.pc = "returned"
  /\ frame.from_yield = << 350000 >>
  /\ frame.frequency = 4
  /\ frame.guess = DefaultGuess
  /\ frame.i >= 1
  /\ Abs(frame.result - 350000) <= 10

\* C17: solve_ytm never raises, makes at most 100 iterations, takes the
\* midpoint of [low, high] whenever the derivative is degenerate, and on
\* exhaustion returns the last clamped estimate.
C17_ReturnsWithoutRaising ==
  /\ frame.pc /= "raised"
  /\ frame.pc \in {"loop", "returned"} => frame.i <= MaxIterations
  /\ (frame.pc = "returned" /\ ~frame.early)
       => (frame.i = MaxIterations /\ frame.result = Clamp(frame.result))

(***************************************************************************)
(* Stateless calls: generate_cash_flows, calculate_var and                 *)
(* calculate_expected_shortfall, optimize and the CVaR objective, each     *)
(* called once on a fresh engine.  op holds the call, its arguments and    *)
(* its result.                                                             *)
(***************************************************************************)
Principals == {100, 1000}

CouponRates == {0, 400, 600}

Frequencies == {1, 2, 4, 12}

\* Maturities in months, from 0 to 2.5 years.
Maturities == {0, 1, 3, 6, 9, 15, 24, 30}

\* generate_cash_flows(principal, coupon_rate, frequency, years_to_maturity).
GenerateCashFlows ==
  /\ op.kind = "init"
  /\ \E principal \in Principals, coupon_rate \in CouponRates,
        frequency \in Frequencies, years_to_maturity \in Maturities :
       op' = [kind |-> "generate_cash_flows", principal |-> principal,
              coupon_rate |-> coupon_rate, frequency |-> frequency,
              years_to_maturity |-> years_to_maturity,
              result |-> generate_cash_flows(principal, coupon_rate, frequency,
                                             years_to_maturity)]
  /\ UNCHANGED << simVars, cache, rng, curveVars, consVars, ytmVars >>

\* np.sort: the losses in ascending order.
RECURSIVE Ascending(_)
Ascending(s) ==
  IF Len(s) <= 1 THEN s
  ELSE LET rest == Ascending(Tail(s))
           below == SelectSeq(rest, LAMBDA x : x <= Head(s))
           above == SelectSeq(rest, LAMBDA x : x > Head(s))
       IN  below \o << Head(s) >> \o above

\* risk_engine.py line 53: np.percentile(losses, confidence_level * 100), the
\* linear interpolation between the two order statistics around the index
\* (n - 1) * confidence_level.  Confidence levels are in percent and the
\* result is in hundredths of the unit of the losses.
calculate_var(losses, confidence_level) ==
  LET sorted == Ascending(losses)
      virtual == (Len(losses) - 1) * confidence_level
      lower == virtual \div 100
      fraction == virtual % 100
  IN  IF fraction = 0 THEN 100 * sorted[lower + 1]
      ELSE 100 * sorted[lower + 1]
             + fraction * (sorted[lower + 2] - sorted[lower + 1])

\* losses[losses > var] in place of losses[losses >= var] at line 57.
TailLosses_Strict(losses, var) ==
  SelectSeq(losses, LAMBDA x : 100 * x > var)

\* Line 57: losses[losses >= var].
TailLosses(losses, var) ==
  SelectSeq(losses, LAMBDA x : 100 * x >= var)

\* Lines 55-58, in hundredths of the unit of the losses.
calculate_expected_shortfall(losses, confidence_level) ==
  LET var == calculate_var(losses, confidence_level)
      tail_losses == TailLosses(losses, var)
  IN  IF Len(tail_losses) > 0
      THEN (100 * SumSeq(tail_losses)) \div Len(tail_losses)
      ELSE var

LossValues == {-5, 0, 3, 10}

\* Loss arrays of one to three scenarios.
LossArrays == UNION { [1..n -> LossValues] : n \in 1..3 }

\* Confidence levels 0.5, 0.9, 0.95 and 0.99.
ConfidenceLevels == {50, 90, 95, 99}

\* calculate_expected_shortfall(losses, confidence_level).
CalculateExpectedShortfall ==
  /\ op.kind = "init"
  /\ \E losses \in LossArrays, confidence_level \in ConfidenceLevels :
       op' = [kind |-> "calculate_expected_shortfall", losses |-> losses,
              confidence_level |-> confidence_level,
              result |-> calculate_expected_shortfall(losses, confidence_level)]
  /\ UNCHANGED << simVars, cache, rng, curveVars, consVars, ytmVars >>

\* Weights in steps of a quarter.
FineGrid == {0, 2500000, 5000000, 7500000, WOne}

\* The universes optimize is called on: two bonds, and three.
OptimizeUniverses ==
  { << Bond("SHORT", 200, 2, 6, 10000), Bond("LONG", 600, 2, 24, 10000) >>,
    << Bond("SHORT", 200, 2, 6, 10000), Bond("MID", 400, 2, 12, 10000),
       Bond("LONG", 600, 2, 24, 10000) >> }

\* Configurations without a duration or convexity target.
UntargetedConfigs ==
  { PortfolioConstraints(<< >>, << >>, mx, mn) :
      mx \in {5000000, WOne}, mn \in {0, 2500000} }

\* optimize(bond_universe, scenarios): lines 59-112.  The objective fetches
\* every bond's schedule through the cache; success is solver_result.success.
Optimize ==
  /\ op.kind = "init"
  /\ \E bond_universe \in OptimizeUniverses, c \in UntargetedConfigs :
       /\ \E w \in optimize_in(FineGrid, c, bond_universe) :
            op' = [kind |-> "optimize", cfg |-> c,
                   bond_universe |-> bond_universe,
                   success |-> w \in ConvergedOn(FineGrid, c, Len(bond_universe)),
                   result |-> w]
       /\ cache' = CacheAfter(cache, bond_universe, Len(bond_universe))
  /\ UNCHANGED << simVars, rng, curveVars, consVars, ytmVars >>

\* The claimed unit loss: the actual price above, its floor at 0.01 below.
unit_loss_ratio_ActualNumerator(initial_market_price, scenario_price) ==
  ((initial_market_price - scenario_price) * 100) \div Max(initial_market_price, 1)

\* optimizer.py lines 38-44, prices in cents and the ratio in hundredths: a
\* price <= 0 is replaced by 0.01 before the ratio is taken.
unit_loss_ratio(initial_market_price, scenario_price) ==
  LET floored == IF initial_market_price <= 0 THEN 1 ELSE initial_market_price
  IN  ((floored - scenario_price) * 100) \div floored

\* weight * ratio, a weight in 1e-7 and the ratio in hundredths.
Weighted(weight, ratio) ==
  IF ratio >= 0 THEN MulDivQR(ratio, weight, WOne)[1]
  ELSE -MulDivQR(-ratio, weight, WOne)[1]

\* Line 32: the price of every bond under every scenario.
ScenarioPrices(bond_data, cfs, scenarios) ==
  [s \in 1..Len(scenarios) |->
     [k \in 1..Len(bond_data) |->
        calculate_price(get_yield(scenarios[s], bond_data[k].maturity),
                        cfs[k], bond_data[k].frequency)]]

\* Lines 38-44 for every bond under every scenario.
UnitLosses(bond_data, prices) ==
  [s \in 1..Len(prices) |->
     [k \in 1..Len(bond_data) |->
        unit_loss_ratio(bond_data[k].market_price, prices[s][k])]]

\* Lines 12-57, alpha and the result in hundredths, the confidence level in
\* percent: alpha + sum(max(loss - alpha, 0)) / (n * (1 - confidence_level)).
cvar_objective(w, alpha_var_proxy, unit_losses, confidence_level) ==
  LET scenario_losses ==
        [s \in 1..Len(unit_losses) |->
           SumSeq([k \in 1..Len(w) |->
                     Weighted(w[k], unit_losses[s][k])])]
      tail_deviation ==
        [s \in 1..Len(unit_losses) |->
           Max(scenario_losses[s] - alpha_var_proxy, 0)]
  IN  alpha_var_proxy
        + (100 * SumSeq(tail_deviation))
            \div (Len(unit_losses) * (100 - confidence_level))

\* Market prices of -5.00, 0, 0.01 and 99.00.
MarketPrices == {-500, 0, 1, 9900}

ObjectiveUniverses ==
  { << Bond("SHORT", 400, 2, 12, p1), Bond("LONG", 600, 1, 24, p2) >> :
      p1 \in MarketPrices, p2 \in MarketPrices }

ScenarioSets == { << CurveA >>, << CurveA, CurveC >> }

ObjectiveWeights == { << WOne, 0 >>, << 5000000, 5000000 >> }

\* _cvar_objective(weights_plus_alpha, bond_data, scenarios, 0.95) with
\* alpha = 0.01: lines 12-57.  The call records the scenario prices and the
\* unit losses it computed.
CvarObjective ==
  /\ op.kind = "init"
  /\ \E bond_data \in ObjectiveUniverses, scenarios \in ScenarioSets,
        w \in ObjectiveWeights :
       /\ LET cfs == SchedulesUsed(cache, bond_data)
              prices == ScenarioPrices(bond_data, cfs, scenarios)
              unit_losses == UnitLosses(bond_data, prices)
          IN  op' = [kind |-> "cvar_objective", bond_data |-> bond_data,
                     weights |-> w, scenario_prices |-> prices,
                     unit_losses |-> unit_losses,
                     result |-> cvar_objective(w, 1, unit_losses, 95)]
       /\ cache' = CacheAfter(cache, bond_data, Len(bond_data))
  /\ UNCHANGED << simVars, rng, curveVars, consVars, ytmVars >>

CallsInit ==
  /\ Frozen
  /\ cache = EmptyCache
  /\ rng = 7
  /\ op = [kind |-> "init"]
  /\ base_curve = CurveA
  /\ ref = NoRef
  /\ cfg = DefaultCfg
  /\ cweights = << >>
  /\ stats = << >>
  /\ violations = NoViolations
  /\ frame = NoFrame

CallsNext ==
  \/ GenerateCashFlows
  \/ CalculateExpectedShortfall
  \/ Optimize
  \/ CvarObjective

SpecCalls == CallsInit /\ [][CallsNext]_vars

(***************************************************************************)
(* Claims about the stateless calls.                                       *)
(***************************************************************************)
\* C13: generate_cash_flows returns round(maturity x frequency) entries, the
\* k-th at time k / frequency and paying (coupon / frequency) x principal,
\* the last one paying the principal as well, in the order of their times.
C13_Schedule ==
  op.kind = "generate_cash_flows" =>
    LET count == RoundHalfEven(op.years_to_maturity * op.frequency, 12)
        coupon == (op.coupon_rate * op.principal) \div (100 * op.frequency)
    IN  /\ Len(op.result) = count
        /\ \A k \in 1..count :
             /\ op.result[k].time * op.frequency = 12 * k
             /\ op.result[k].amount
                  = coupon + (IF k = count THEN 100 * op.principal ELSE 0)
        /\ \A k \in 1..(count - 1) : op.result[k].time < op.result[k + 1].time

\* A 9-month semi-annual bond: 1.5 periods round to 2 entries, at 6 and 12
\* months, the second with the principal.
C13_Witness ==
  /\ op.kind = "generate_cash_flows"
  /\ op.years_to_maturity = 9
  /\ op.frequency = 2
  /\ op.coupon_rate = 400
  /\ Len(op.result) = 2
  /\ op.result[2].time = 12
  /\ op.result[2].amount = op.result[1].amount + 100 * op.principal

\* C14: the value at risk of a loss array is at most its expected shortfall,
\* which is the mean of the losses >= the value at risk, and the value at
\* risk itself when there is no such loss.
C14_VarAtMostShortfall ==
  op.kind = "calculate_expected_shortfall" =>
    LET var == calculate_var(op.losses, op.confidence_level)
        tail == { k \in 1..Len(op.losses) : 100 * op.losses[k] >= var }
        total == SumSeq([k \in 1..Len(op.losses) |->
                           IF k \in tail THEN op.losses[k] ELSE 0])
    IN  /\ var <= op.result
        /\ tail /= {} => op.result = (100 * total) \div Cardinality(tail)
        /\ tail = {} => op.result = var

\* Three losses at 95%: the value at risk lies between the two largest
\* losses and the shortfall is the largest loss alone, above it.
C14_Witness ==
  /\ op.kind = "calculate_expected_shortfall"
  /\ op.losses = << 3, -5, 10 >>
  /\ op.confidence_level = 95
  /\ calculate_var(op.losses, op.confidence_level) = 930
  /\ op.result = 1000

\* Some vector meets the bounds and the budget of the configuration.
Feasible(c, n) == ConvergedOn(FineGrid, c, n) /= {}

\* The vector has one weight per bond, sums to 1 within 1e-4 and keeps every
\* weight within the bounds, 1e-4 apart at most.
WithinBudgetAndBounds(c, w, n) ==
  /\ Len(w) = n
  /\ Abs(SumSeq(w) - WOne) <= 1000
  /\ \A k \in 1..Len(w) :
       w[k] <= c.max_weight + 1000 /\ w[k] >= c.min_weight - 1000

C18_CoherentCache ==
  /\ pc \in {"optimize", "record"} =>
       \A k \in 1..Len(current_universe) :
         used[k] = ScheduleOf(current_universe[k])
  /\ (pc = "idle" /\ op.kind = "run_stress_test") =>
       \A k \in 1..Len(universe) : used[k] = ScheduleOf(universe[k])

\* C20: once a simulator step has marked the universe to market, every bond
\* has a schedule of at least one cash flow and a market price above 0, so
\* the re-optimization of the step is given no bond priced at 0.
C20_PositivePrices ==
  pc \in {"optimize", "record"} =>
    \A k \in 1..Len(current_universe) :
      /\ Len(used[k]) > 0
      /\ current_universe[k].market_price > 0


(***************************************************************************)
(* The constraint set optimize hands to the solver, set against            *)
(* check_constraints on the same configuration and bond characteristics.   *)
(***************************************************************************)
\* optimizer.py lines 68-96: the budget equality, the duration equality and
\* the convexity floor when their targets are set, and the weight bounds.
SolverConstraintSet(c, w, bond_characteristics) ==
  /\ SumSeq(w) - WOne = 0
  /\ c.target_duration /= << >> =>
       calculate_portfolio_duration(w, bond_characteristics)
         - c.target_duration[1] = 0
  /\ c.target_convexity /= << >> =>
       calculate_portfolio_convexity(w, bond_characteristics)
         - c.target_convexity[1] >= 0
  /\ \A k \in 1..Len(w) : c.min_weight <= w[k] /\ w[k] <= c.max_weight

\* C19: a weight vector that satisfies the solver's constraint set (sum 1,
\* every weight within [min_weight, max_weight], duration equal to its
\* target when set, convexity at least its target when set) is reported by
\* check_constraints as fully compliant: the mapping is empty.
C19_SolverSetIsCompliant ==
  (op.kind = "check_constraints" /\ SolverConstraintSet(cfg, cweights, stats))
    => violations = NoViolations

====
